---------------------------- MODULE Spec2Model ----------------------------
(***************************************************************************)
(* Hypertrophy App (bomboclat3/hypertrophy-app): the GymTracker component  *)
(* (page.tsx), its useLocalStorage hook, the cloud sync helpers            *)
(* (lib/database.ts) and the two API routes, as a state machine.           *)
(*                                                                         *)
(* Strings are sequences of one-character strings (<<>> is ''), so that    *)
(* trim, parseInt and truthiness are computed.  JavaScript numbers are     *)
(* tagged values: Num(n), NaN, and Null (what JSON gives back for NaN).    *)
(* An ISO date string is represented by its epoch milliseconds, which is   *)
(* what new Date(iso).getTime() recovers from it.                          *)
(***************************************************************************)
EXTENDS Integers, Sequences, FiniteSets, TLC

VARIABLES
    isLoaded,        \* useUser().isLoaded
    userId,          \* useUser().user?.id, <<>> when signed out
    lifts,           \* React state of useLocalStorage('gym-lifts-...')
    workouts,        \* React state of useLocalStorage('gym-workouts-...')
    localStorage,    \* window.localStorage: key -> stored text
    activeTab,
    newLiftName, selectedLiftId, weight, reps, sets, difficulty,
    issyncing,
    pulls,           \* GET /api/load-data requests in flight
    pushes,          \* POST /api/sync-data requests in flight
    cloud,           \* Clerk privateMetadata per user id
    now,             \* Date.now()
    storageFaulty,   \* environment: localStorage calls may throw
    lastOp           \* history: the last handler run, its arguments and result

vars == <<isLoaded, userId, lifts, workouts, localStorage, activeTab,
          newLiftName, selectedLiftId, weight, reps, sets, difficulty,
          issyncing, pulls, pushes, cloud, now, storageFaulty, lastOp>>

(***************************************************************************)
(* Bounds of the model.                                                    *)
(***************************************************************************)
MaxClock == 3
MaxLifts == 2
MaxSyncLifts == 1
MaxWorkouts == 2
MaxInFlight == 2
MaxDate == 2
MaxRecentLen == 7
MaxRichLen == 3
MaxOddLen == 2
MaxFaultyLifts == 1
MaxFaultyWorkouts == 1

(***************************************************************************)
(* JavaScript values.                                                      *)
(***************************************************************************)
Num(n) == [t |-> "num", v |-> n]

NaN == [t |-> "NaN"]

Null == [t |-> "null"]

\* ToNumber: null converts to +0.
ToNumber(x) == IF x = Null THEN Num(0) ELSE x

JsMul(a, b) ==
    LET x == ToNumber(a)
        y == ToNumber(b)
    IN  IF x = NaN \/ y = NaN THEN NaN ELSE Num(x.v * y.v)

JsAdd(a, b) ==
    LET x == ToNumber(a)
        y == ToNumber(b)
    IN  IF x = NaN \/ y = NaN THEN NaN ELSE Num(x.v + y.v)

\* a > b: false whenever an operand is NaN.
JsGt(a, b) ==
    LET x == ToNumber(a)
        y == ToNumber(b)
    IN  x # NaN /\ y # NaN /\ x.v > y.v

JsLt(a, b) == JsGt(b, a)

Digits == <<"0", "1", "2", "3", "4", "5", "6", "7", "8", "9">>

DigitValue(c) == CHOOSE d \in 0..9 : Digits[d + 1] = c

IsDigit(c) == \E d \in 0..9 : Digits[d + 1] = c

\* Number.prototype.toString for a non-negative integer.
RECURSIVE DecString(_)
DecString(n) ==
    IF n < 10 THEN <<Digits[n + 1]>>
    ELSE Append(DecString(n \div 10), Digits[(n % 10) + 1])

\* String.prototype.trim over the model's alphabet (the blank is " ").
RECURSIVE TrimLeft(_)
TrimLeft(s) ==
    IF s # <<>> /\ Head(s) = " " THEN TrimLeft(Tail(s)) ELSE s

RECURSIVE TrimRight(_)
TrimRight(s) ==
    IF s # <<>> /\ s[Len(s)] = " " THEN TrimRight(SubSeq(s, 1, Len(s) - 1)) ELSE s

Trim(s) == TrimRight(TrimLeft(s))

\* The value of the longest prefix of decimal digits, scanned left to right.
RECURSIVE DigitPrefix(_, _, _)
DigitPrefix(s, acc, seen) ==
    IF s # <<>> /\ IsDigit(Head(s))
    THEN DigitPrefix(Tail(s), acc * 10 + DigitValue(Head(s)), TRUE)
    ELSE [value |-> acc, seen |-> seen]

\* parseInt(s) (radix 10): leading blanks, an optional sign, then digits up to
\* the first character that is not a digit; NaN when there is no digit.
ParseInt(str) ==
    LET s == TrimLeft(str)
        neg == s # <<>> /\ Head(s) = "-"
        body == IF s # <<>> /\ Head(s) \in {"-", "+"} THEN Tail(s) ELSE s
        p == DigitPrefix(body, 0, FALSE)
    IN  IF ~p.seen THEN NaN
        ELSE Num(IF neg THEN 0 - p.value ELSE p.value)

\* parseFloat(s) on the strings the weight field is given here: an optional
\* sign and digits, with no fraction and no exponent, where it reads the same
\* prefix as parseInt.
ParseFloat(str) == ParseInt(str)

\* new Date().toISOString() at clock t: the date's text.
ToISOString(t) == [iso |-> t]

\* new Date(dateString).getTime(): the clock value the text was made of.
GetTime(dateString) == dateString.iso

Min(a, b) == IF a < b THEN a ELSE b

Front(s) == SubSeq(s, 1, Len(s) - 1)

Last(s) == s[Len(s)]

(***************************************************************************)
(* Records.  Lift: {id, name, createdAt}.  WorkoutEntry: {id, liftId,      *)
(* weight, reps, sets, difficulty, date}.                                  *)
(***************************************************************************)
Lift(id, name, createdAt) == [id |-> id, name |-> name, createdAt |-> createdAt]

WorkoutEntry(id, liftId, w, r, s, d, date) ==
    [id |-> id, liftId |-> liftId, weight |-> w, reps |-> r, sets |-> s,
     difficulty |-> d, date |-> date]

(***************************************************************************)
(* Array.prototype.sort with a comparator: a stable sort, here by          *)
(* insertion (x goes before the first element the comparator puts after    *)
(* it).                                                                    *)
(***************************************************************************)
\* (a, b) => new Date(a.date).getTime() - new Date(b.date).getTime()
CompareDateAsc(a, b) == GetTime(a.date) - GetTime(b.date)

\* (a, b) => new Date(b.date).getTime() - new Date(a.date).getTime()
CompareDateDesc(a, b) == GetTime(b.date) - GetTime(a.date)

RECURSIVE InsertAsc(_, _)
InsertAsc(s, x) ==
    IF s = <<>> THEN <<x>>
    ELSE IF CompareDateAsc(Head(s), x) > 0 THEN <<x>> \o s
    ELSE <<Head(s)>> \o InsertAsc(Tail(s), x)

RECURSIVE SortDateAsc(_)
SortDateAsc(s) ==
    IF s = <<>> THEN <<>> ELSE InsertAsc(SortDateAsc(Front(s)), Last(s))

RECURSIVE InsertDesc(_, _)
InsertDesc(s, x) ==
    IF s = <<>> THEN <<x>>
    ELSE IF CompareDateDesc(Head(s), x) > 0 THEN <<x>> \o s
    ELSE <<Head(s)>> \o InsertDesc(Tail(s), x)

RECURSIVE SortDateDesc(_)
SortDateDesc(s) ==
    IF s = <<>> THEN <<>> ELSE InsertDesc(SortDateDesc(Front(s)), Last(s))

(***************************************************************************)
(* Metrics.                                                                *)
(***************************************************************************)
RecentCount == 5

MsPerDay == 1000 * 60 * 60 * 24

\* A volume that leaves the number of sets out.
RECURSIVE ReduceVolumeNoSets(_, _)
ReduceVolumeNoSets(ws, sum) ==
    IF ws = <<>> THEN sum
    ELSE ReduceVolumeNoSets(Tail(ws), JsAdd(sum, JsMul(Head(ws).weight, Head(ws).reps)))

\* workouts.reduce((sum, w) => sum + (w.weight * w.reps * w.sets), 0)
RECURSIVE ReduceVolume(_, _)
ReduceVolume(ws, sum) ==
    IF ws = <<>> THEN sum
    ELSE ReduceVolume(Tail(ws),
                      JsAdd(sum, JsMul(JsMul(Head(ws).weight, Head(ws).reps), Head(ws).sets)))

\* The personalRecords Map after workouts.forEach: liftId -> greatest weight,
\* an entry being set only when w.weight > (map.get(liftId) || 0).
RECURSIVE PersonalRecordsMap(_, _)
PersonalRecordsMap(ws, map) ==
    IF ws = <<>> THEN map
    ELSE LET w == Head(ws)
             current == IF w.liftId \in DOMAIN map THEN map[w.liftId] ELSE Num(0)
         IN  IF JsGt(w.weight, current)
             THEN PersonalRecordsMap(Tail(ws),
                      [k \in DOMAIN map \cup {w.liftId} |->
                          IF k = w.liftId THEN w.weight ELSE map[k]])
             ELSE PersonalRecordsMap(Tail(ws), map)

MaxOf(S) == CHOOSE m \in S : \A x \in S : x <= m

GetMetrics(ws, clock) ==
    LET lastWorkoutDate ==
            IF Len(ws) > 0
            THEN Num(MaxOf({GetTime(ws[i].date) : i \in 1..Len(ws)}))
            ELSE Null
    IN  [totalSessions |-> Len(ws),
         totalWeight |-> ReduceVolume(ws, Num(0)),
         uniqueExercises |-> Cardinality({ws[i].liftId : i \in 1..Len(ws)}),
         lastWorkoutDate |-> lastWorkoutDate,
         daysSinceLastWorkout |->
            IF lastWorkoutDate # Null
            THEN Num((clock - lastWorkoutDate.v) \div MsPerDay)
            ELSE Null,
         personalRecords |-> Cardinality(DOMAIN PersonalRecordsMap(ws, <<>>))]

\* A progression that compares the two entries that come first in the list.
GetExerciseProgressionListOrder(ws, liftId) ==
    LET exerciseWorkouts == SelectSeq(ws, LAMBDA w : w.liftId = liftId)
        n == Len(exerciseWorkouts)
    IN  IF n < 2 THEN "neutral"
        ELSE LET recent == exerciseWorkouts[1]
                 previous == exerciseWorkouts[2]
             IN  IF JsGt(recent.weight, previous.weight) THEN "up"
                 ELSE IF JsLt(recent.weight, previous.weight) THEN "down"
                 ELSE IF JsGt(recent.reps, previous.reps) THEN "up"
                 ELSE IF JsLt(recent.reps, previous.reps) THEN "down"
                 ELSE "neutral"

\* A progression that goes on to compare the sets when weight and reps tie.
GetExerciseProgressionWithSets(ws, liftId) ==
    LET exerciseWorkouts == SortDateAsc(SelectSeq(ws, LAMBDA w : w.liftId = liftId))
        n == Len(exerciseWorkouts)
    IN  IF n < 2 THEN "neutral"
        ELSE LET recent == exerciseWorkouts[n]
                 previous == exerciseWorkouts[n - 1]
             IN  IF JsGt(recent.weight, previous.weight) THEN "up"
                 ELSE IF JsLt(recent.weight, previous.weight) THEN "down"
                 ELSE IF JsGt(recent.reps, previous.reps) THEN "up"
                 ELSE IF JsLt(recent.reps, previous.reps) THEN "down"
                 ELSE IF JsGt(recent.sets, previous.sets) THEN "up"
                 ELSE IF JsLt(recent.sets, previous.sets) THEN "down"
                 ELSE "neutral"

GetExerciseProgression(ws, liftId) ==
    LET exerciseWorkouts == SortDateAsc(SelectSeq(ws, LAMBDA w : w.liftId = liftId))
        n == Len(exerciseWorkouts)
    IN  IF n < 2 THEN "neutral"
        ELSE LET recent == exerciseWorkouts[n]
                 previous == exerciseWorkouts[n - 1]
             IN  IF JsGt(recent.weight, previous.weight) THEN "up"
                 ELSE IF JsLt(recent.weight, previous.weight) THEN "down"
                 ELSE IF JsGt(recent.reps, previous.reps) THEN "up"
                 ELSE IF JsLt(recent.reps, previous.reps) THEN "down"
                 ELSE "neutral"

\* Recent workouts taken from the list as it is, without the sort.
GetRecentWorkoutsUnsorted(ws) ==
    [array |-> ws, result |-> SubSeq(ws, 1, Min(RecentCount, Len(ws)))]

\* workouts.sort(...) sorts the array it is called on and returns it;
\* slice(0, 5) copies its first five elements.
GetRecentWorkouts(ws) ==
    LET sorted == SortDateDesc(ws)
    IN  [array |-> sorted, result |-> SubSeq(sorted, 1, Min(RecentCount, Len(sorted)))]


(***************************************************************************)
(* localStorage and JSON.  A stored text is what JSON.stringify made of an *)
(* array, or one of the other texts a key may hold: text that does not     *)
(* parse, the text "null", the empty string.  NoItem is getItem's null.    *)
(***************************************************************************)
Anonymous == <<"anonymous">>

Users == {<<"u1">>}

Partitions == {Anonymous} \cup Users

\* `gym-lifts-${storageKey}` and `gym-workouts-${storageKey}`
LiftsKey(k) == <<"gym-lifts-", k>>

WorkoutsKey(k) == <<"gym-workouts-", k>>

StorageKeys == {LiftsKey(k) : k \in Partitions} \cup {WorkoutsKey(k) : k \in Partitions}

NoItem == [text |-> "none"]

\* JSON.stringify of a number: NaN (and Infinity) is written as null.
EncodeNumber(x) == IF x = NaN THEN Null ELSE x

EncodeRecord(r) ==
    IF "weight" \in DOMAIN r
    THEN [r EXCEPT !.weight = EncodeNumber(@), !.reps = EncodeNumber(@),
                   !.sets = EncodeNumber(@)]
    ELSE r

\* JSON.stringify(array)
JSONStringify(list) ==
    [text |-> "array", items |-> [i \in 1..Len(list) |-> EncodeRecord(list[i])]]

\* A parsed value: an array with its items, or null.
ArrayValue(items) == [kind |-> "array", items |-> items]

NullValue == [kind |-> "null"]

\* JSON.parse(text): the value, or a throw.
JSONParse(item) ==
    CASE item.text = "array" -> [threw |-> FALSE, value |-> ArrayValue(item.items)]
      [] item.text = "null" -> [threw |-> FALSE, value |-> NullValue]
      [] OTHER -> [threw |-> TRUE]

\* The useState initialiser of useLocalStorage.  window: "ok", "undefined"
\* (no window) or "throws" (getItem throws).
ReadStored(store, key, initialValue, window) ==
    IF window # "ok" THEN initialValue
    ELSE LET item == store[key]
         IN  IF item = NoItem \/ item.text = "empty" THEN initialValue
             ELSE IF JSONParse(item).threw THEN initialValue
             ELSE JSONParse(item).value

\* window.localStorage.setItem(key, JSON.stringify(value)); a throw leaves
\* the store as it was.
SetItem(store, key, value, ok) ==
    IF ok THEN [store EXCEPT ![key] = JSONStringify(value)] ELSE store

WriteOutcomes == IF storageFaulty THEN BOOLEAN ELSE {TRUE}

\* storageKey = isSignedIn && user?.id ? user.id : 'anonymous'
StorageKey(uid) == IF uid # <<>> THEN uid ELSE Anonymous

(***************************************************************************)
(* Requests in flight: bags (request -> count).                            *)
(***************************************************************************)
EmptyBag == <<>>

BagSize(b) ==
    LET RECURSIVE Sum(_)
        Sum(S) == IF S = {} THEN 0
                  ELSE LET x == CHOOSE y \in S : TRUE IN b[x] + Sum(S \ {x})
    IN  Sum(DOMAIN b)

BagAdd(b, x, k) ==
    IF k = 0 THEN b
    ELSE [y \in DOMAIN b \cup {x} |->
            IF y = x THEN (IF x \in DOMAIN b THEN b[x] ELSE 0) + k ELSE b[y]]

BagRemove(b, x) ==
    IF b[x] > 1 THEN [b EXCEPT ![x] = @ - 1]
    ELSE IF DOMAIN b = {x} THEN EmptyBag
    ELSE [y \in DOMAIN b \ {x} |-> b[y]]

EncodeList(list) == [i \in 1..Len(list) |-> EncodeRecord(list[i])]

\* fetch(`/api/load-data?userId=${userId}`)
PullReq(uid) == [uid |-> uid, phase |-> "sent"]

\* fetch('/api/sync-data', {body: JSON.stringify({lifts, workouts, userId})})
PushReq(uid, ls, ws) ==
    [uid |-> uid, phase |-> "sent", lifts |-> EncodeList(ls), workouts |-> EncodeList(ws)]


(***************************************************************************)
(* Rendering.  A state update re-renders GymTracker.  On the dashboard tab *)
(* the render calls getRecentWorkouts, whose sort reorders the workouts    *)
(* array held in state.  After the render the auto-sync effect runs: its   *)
(* dependency loadFromCloud is a new function on every render (setLifts    *)
(* and setWorkouts are), so it runs after every render.  When it starts a  *)
(* push, setIsSyncing(true) renders once more, and the effect of that      *)
(* render calls loadFromCloud again and syncToCloud returns at once.       *)
(***************************************************************************)
DashboardRender(ws, loaded, tab) ==
    IF loaded /\ tab = "dashboard" THEN GetRecentWorkouts(ws).array ELSE ws

\* syncToCloud of a render with the given state: nothing when there is no
\* user or issyncing is set; otherwise setIsSyncing(true) and the POST.
SyncToCloud(s, uid) ==
    IF uid = <<>> \/ s.issyncing THEN s
    ELSE [s EXCEPT !.issyncing = TRUE,
                   !.pushes = BagAdd(@, PushReq(uid, s.lifts, s.workouts), 1),
                   !.pushesIssued = @ + 1]

\* loadFromCloud of a render: nothing when there is no user; otherwise the GET.
LoadFromCloud(s, uid) ==
    IF uid = <<>> THEN s
    ELSE [s EXCEPT !.pulls = BagAdd(@, PullReq(uid), 1), !.pullsIssued = @ + 1]

\* An auto-sync effect that only loads.
AutoSyncEffectLoadOnly(s, uid, loaded) ==
    IF uid # <<>> /\ loaded THEN LoadFromCloud(s, uid) ELSE s

\* The body of the auto-sync useEffect.
AutoSyncEffect(s, uid, loaded) ==
    IF uid # <<>> /\ loaded
    THEN LET s1 == LoadFromCloud(s, uid)
         IN  IF Len(s1.lifts) > 0 \/ Len(s1.workouts) > 0
             THEN SyncToCloud(s1, uid)
             ELSE s1
    ELSE s

\* One render and its effect, and the render that a state update made by the
\* effect causes.
RECURSIVE Render(_, _, _, _)
Render(s, uid, loaded, tab) ==
    LET r == [s EXCEPT !.workouts = DashboardRender(@, loaded, tab)]
        e == AutoSyncEffect(r, uid, loaded)
    IN  IF e.issyncing # r.issyncing THEN Render(e, uid, loaded, tab) ELSE e

\* The component's state that handlers and the effect update.
Current ==
    [lifts |-> lifts, workouts |-> workouts, issyncing |-> issyncing,
     pulls |-> pulls, pushes |-> pushes, pullsIssued |-> 0, pushesIssued |-> 0]

\* The state after the handler's updates s has been rendered, with op recorded
\* as the last operation.
Commit(s, uid, loaded, tab, op) ==
    LET r == Render(s, uid, loaded, tab)
    IN  /\ BagSize(r.pulls) <= MaxInFlight
        /\ BagSize(r.pushes) <= MaxInFlight
        /\ lifts' = r.lifts
        /\ workouts' = r.workouts
        /\ issyncing' = r.issyncing
        /\ pulls' = r.pulls
        /\ pushes' = r.pushes
        /\ lastOp' = [op EXCEPT !.pullsIssued = r.pullsIssued,
                                !.pushesIssued = r.pushesIssued]

\* A handler that updated no state: nothing is rendered.
NoRender(op) ==
    /\ UNCHANGED <<lifts, workouts, issyncing, pulls, pushes>>
    /\ lastOp' = op

Op(name, arg) ==
    [op |-> name, arg |-> arg, before |-> [lifts |-> lifts, workouts |-> workouts],
     pullsIssued |-> 0, pushesIssued |-> 0]


(***************************************************************************)
(* The component: initial state and handlers.                              *)
(***************************************************************************)
Tabs == {"dashboard", "log", "lifts", "history"}

FormVars == <<newLiftName, selectedLiftId, weight, reps, sets, difficulty>>

EmptyMetadata == [lifts |-> <<>>, workouts |-> <<>>, lastSync |-> Null]

\* A profile another device synced earlier (before the clock's first value).
SampleMetadata ==
    [lifts |-> <<Lift(<<"0">>, <<"r">>, ToISOString(0))>>,
     workouts |-> <<WorkoutEntry(<<"0">>, <<"0">>, Num(100), Num(5), Num(3), 3,
                                 ToISOString(0))>>,
     lastSync |-> ToISOString(0)]

FirstClock == 2

\* The first render: Clerk has not loaded, so the keys are the anonymous ones.
Mounted(store) ==
    /\ isLoaded = FALSE
    /\ userId = <<>>
    /\ localStorage = store
    /\ lifts = ReadStored(store, LiftsKey(Anonymous), ArrayValue(<<>>), "ok").items
    /\ workouts = ReadStored(store, WorkoutsKey(Anonymous), ArrayValue(<<>>), "ok").items
    /\ activeTab = "dashboard"
    /\ newLiftName = <<>>
    /\ selectedLiftId = <<>>
    /\ weight = <<>>
    /\ reps = <<>>
    /\ sets = <<>>
    /\ difficulty = 3
    /\ issyncing = FALSE
    /\ pulls = EmptyBag
    /\ pushes = EmptyBag
    /\ now = FirstClock
    /\ lastOp = Op("mount", <<>>)

NoStore == [k \in StorageKeys |-> NoItem]

\* What an earlier anonymous session left in localStorage.
SampleStore ==
    [NoStore EXCEPT
        ![LiftsKey(Anonymous)] = JSONStringify(<<Lift(<<"1">>, <<"l">>, ToISOString(1))>>),
        ![WorkoutsKey(Anonymous)] =
            JSONStringify(<<WorkoutEntry(<<"1">>, <<"1">>, Num(50), Num(8), Num(3), 3,
                                         ToISOString(1))>>)]

\* A visit with or without earlier anonymous data, the user's profile holding
\* data or not.
Init ==
    /\ \E store \in {NoStore, SampleStore} : Mounted(store)
    /\ cloud \in [Users -> {EmptyMetadata, SampleMetadata}]
    /\ storageFaulty = FALSE

\* A first visit, used anonymously.
InitLocal ==
    /\ Mounted(NoStore)
    /\ cloud = [u \in Users |-> EmptyMetadata]
    /\ storageFaulty = FALSE

\* useUser() reports the session: isLoaded, and the signed-in user if any.
ClerkLoaded(u) ==
    /\ ~isLoaded
    /\ isLoaded' = TRUE
    /\ userId' = u
    /\ Commit(Current, u, TRUE, activeTab, Op("clerkLoaded", u))
    /\ UNCHANGED <<localStorage, activeTab, FormVars, cloud, now, storageFaulty>>

\* Sign-in, sign-out or a change of user: useUser() reports another identity.
IdentityChange(u) ==
    /\ isLoaded
    /\ u # userId
    /\ userId' = u
    /\ Commit(Current, u, TRUE, activeTab, Op("identityChange", userId))
    /\ UNCHANGED <<isLoaded, localStorage, activeTab, FormVars, cloud, now, storageFaulty>>

SetActiveTab(tab) ==
    /\ isLoaded
    /\ tab # activeTab
    /\ activeTab' = tab
    /\ Commit(Current, userId, isLoaded, tab, Op("input", <<>>))
    /\ UNCHANGED <<isLoaded, userId, localStorage, FormVars, cloud, now, storageFaulty>>

SetNewLiftName(str) ==
    /\ isLoaded /\ activeTab = "lifts"
    /\ str # newLiftName
    /\ newLiftName' = str
    /\ Commit(Current, userId, isLoaded, activeTab, Op("input", <<>>))
    /\ UNCHANGED <<isLoaded, userId, localStorage, activeTab, selectedLiftId, weight,
                   reps, sets, difficulty, cloud, now, storageFaulty>>

LogFormShown == isLoaded /\ activeTab = "log" /\ Len(lifts) > 0

\* The select's options: '' and the id of every lift.
SetSelectedLiftId(id) ==
    /\ LogFormShown
    /\ id \in {<<>>} \cup {lifts[i].id : i \in 1..Len(lifts)}
    /\ id # selectedLiftId
    /\ selectedLiftId' = id
    /\ Commit(Current, userId, isLoaded, activeTab, Op("input", <<>>))
    /\ UNCHANGED <<isLoaded, userId, localStorage, activeTab, newLiftName, weight,
                   reps, sets, difficulty, cloud, now, storageFaulty>>

SetWeight(str) ==
    /\ LogFormShown
    /\ str # weight
    /\ weight' = str
    /\ Commit(Current, userId, isLoaded, activeTab, Op("input", <<>>))
    /\ UNCHANGED <<isLoaded, userId, localStorage, activeTab, newLiftName,
                   selectedLiftId, reps, sets, difficulty, cloud, now, storageFaulty>>

SetReps(str) ==
    /\ LogFormShown
    /\ str # reps
    /\ reps' = str
    /\ Commit(Current, userId, isLoaded, activeTab, Op("input", <<>>))
    /\ UNCHANGED <<isLoaded, userId, localStorage, activeTab, newLiftName,
                   selectedLiftId, weight, sets, difficulty, cloud, now, storageFaulty>>

SetSets(str) ==
    /\ LogFormShown
    /\ str # sets
    /\ sets' = str
    /\ Commit(Current, userId, isLoaded, activeTab, Op("input", <<>>))
    /\ UNCHANGED <<isLoaded, userId, localStorage, activeTab, newLiftName,
                   selectedLiftId, weight, reps, difficulty, cloud, now, storageFaulty>>

SetDifficulty(level) ==
    /\ LogFormShown
    /\ level # difficulty
    /\ difficulty' = level
    /\ Commit(Current, userId, isLoaded, activeTab, Op("input", <<>>))
    /\ UNCHANGED <<isLoaded, userId, localStorage, activeTab, newLiftName,
                   selectedLiftId, weight, reps, sets, cloud, now, storageFaulty>>


\* setValue of useLocalStorage(key): setStoredValue(value), then setItem, whose
\* throw is caught.  The in-memory list is the new value either way.
SetValue(store, key, value, ok) == SetItem(store, key, value, ok)

\* An addLift that tests the name as typed.
AddLiftNoTrim ==
    /\ isLoaded /\ activeTab = "lifts"
    /\ IF newLiftName # <<>>
       THEN LET newLift == Lift(DecString(now), Trim(newLiftName), ToISOString(now))
                value == Append(lifts, newLift)
            IN  /\ \E ok \in WriteOutcomes :
                      localStorage' = SetValue(localStorage, LiftsKey(StorageKey(userId)), value, ok)
                /\ newLiftName' = <<>>
                /\ Commit([Current EXCEPT !.lifts = value], userId, isLoaded, activeTab,
                          Op("addLift", newLift))
       ELSE /\ NoRender(Op("addLift", <<>>))
            /\ UNCHANGED <<localStorage, newLiftName>>
    /\ UNCHANGED <<isLoaded, userId, activeTab, selectedLiftId, weight, reps, sets,
                   difficulty, cloud, now, storageFaulty>>

AddLift ==
    /\ isLoaded /\ activeTab = "lifts"
    /\ IF Trim(newLiftName) # <<>>
       THEN LET newLift == Lift(DecString(now), Trim(newLiftName), ToISOString(now))
                value == Append(lifts, newLift)
            IN  /\ \E ok \in WriteOutcomes :
                      localStorage' = SetValue(localStorage, LiftsKey(StorageKey(userId)), value, ok)
                /\ newLiftName' = <<>>
                /\ Commit([Current EXCEPT !.lifts = value], userId, isLoaded, activeTab,
                          Op("addLift", newLift))
       ELSE /\ NoRender(Op("addLift", <<>>))
            /\ UNCHANGED <<localStorage, newLiftName>>
    /\ UNCHANGED <<isLoaded, userId, activeTab, selectedLiftId, weight, reps, sets,
                   difficulty, cloud, now, storageFaulty>>

\* A deleteLift that filters the workouts by their own id.
DeleteLiftByWorkoutId(id) ==
    /\ isLoaded /\ activeTab = "lifts"
    /\ \E i \in 1..Len(lifts) : lifts[i].id = id
    /\ LET newLifts == SelectSeq(lifts, LAMBDA lift : lift.id # id)
           newWorkouts == SelectSeq(workouts, LAMBDA workout : workout.id # id)
       IN  /\ \E ok1, ok2 \in WriteOutcomes :
                 localStorage' =
                     SetValue(SetValue(localStorage, LiftsKey(StorageKey(userId)), newLifts, ok1),
                              WorkoutsKey(StorageKey(userId)), newWorkouts, ok2)
           /\ Commit([Current EXCEPT !.lifts = newLifts, !.workouts = newWorkouts],
                     userId, isLoaded, activeTab, Op("deleteLift", id))
    /\ UNCHANGED <<isLoaded, userId, activeTab, FormVars, cloud, now, storageFaulty>>

DeleteLift(id) ==
    /\ isLoaded /\ activeTab = "lifts"
    /\ \E i \in 1..Len(lifts) : lifts[i].id = id
    /\ LET newLifts == SelectSeq(lifts, LAMBDA lift : lift.id # id)
           newWorkouts == SelectSeq(workouts, LAMBDA workout : workout.liftId # id)
       IN  /\ \E ok1, ok2 \in WriteOutcomes :
                 localStorage' =
                     SetValue(SetValue(localStorage, LiftsKey(StorageKey(userId)), newLifts, ok1),
                              WorkoutsKey(StorageKey(userId)), newWorkouts, ok2)
           /\ Commit([Current EXCEPT !.lifts = newLifts, !.workouts = newWorkouts],
                     userId, isLoaded, activeTab, Op("deleteLift", id))
    /\ UNCHANGED <<isLoaded, userId, activeTab, FormVars, cloud, now, storageFaulty>>

LogWorkout ==
    /\ LogFormShown
    /\ IF selectedLiftId # <<>> /\ weight # <<>> /\ reps # <<>> /\ sets # <<>>
       THEN LET newWorkout ==
                    WorkoutEntry(DecString(now), selectedLiftId, ParseFloat(weight),
                                 ParseInt(reps), ParseInt(sets), difficulty,
                                 ToISOString(now))
                value == <<newWorkout>> \o workouts
            IN  /\ \E ok \in WriteOutcomes :
                      localStorage' =
                          SetValue(localStorage, WorkoutsKey(StorageKey(userId)), value, ok)
                /\ weight' = <<>>
                /\ reps' = <<>>
                /\ sets' = <<>>
                /\ difficulty' = 3
                /\ Commit([Current EXCEPT !.workouts = value], userId, isLoaded, activeTab,
                          Op("logWorkout", newWorkout))
       ELSE /\ NoRender(Op("logWorkout", <<>>))
            /\ UNCHANGED <<localStorage, weight, reps, sets, difficulty>>
    /\ UNCHANGED <<isLoaded, userId, activeTab, newLiftName, selectedLiftId, cloud, now,
                   storageFaulty>>

DeleteWorkout(id) ==
    /\ isLoaded /\ activeTab = "history"
    /\ \E i \in 1..Len(workouts) : workouts[i].id = id
    /\ LET value == SelectSeq(workouts, LAMBDA workout : workout.id # id)
       IN  /\ \E ok \in WriteOutcomes :
                 localStorage' =
                     SetValue(localStorage, WorkoutsKey(StorageKey(userId)), value, ok)
           /\ Commit([Current EXCEPT !.workouts = value], userId, isLoaded, activeTab,
                     Op("deleteWorkout", id))
    /\ UNCHANGED <<isLoaded, userId, activeTab, FormVars, cloud, now, storageFaulty>>

\* The Sync button (shown when signed in, disabled while issyncing).
ManualSync ==
    /\ isLoaded /\ userId # <<>> /\ ~issyncing
    /\ Commit(SyncToCloud(Current, userId), userId, isLoaded, activeTab,
              Op("syncToCloud", userId))
    /\ UNCHANGED <<isLoaded, userId, localStorage, activeTab, FormVars, cloud, now,
                   storageFaulty>>

(***************************************************************************)
(* The network and the two API routes.                                     *)
(***************************************************************************)
\* A loadDataFromCloud without the fall-through return of empty lists.
LoadDataFromCloudNoFallback(metadata, ok) ==
    [lifts |-> metadata.lifts, workouts |-> metadata.workouts]

\* GET /api/load-data reaches the route and loadDataFromCloud gets the answer:
\* the stored lists (or [] for a missing one), or, when the request or the
\* route fails, the empty lists of loadDataFromCloud's fall-through return.
LoadDataFromCloud(metadata, ok) ==
    IF ok THEN [lifts |-> metadata.lifts, workouts |-> metadata.workouts]
    ELSE [lifts |-> <<>>, workouts |-> <<>>]

PullServe(p, ok) ==
    /\ p \in DOMAIN pulls
    /\ p.phase = "sent"
    /\ LET cloudData == LoadDataFromCloud(cloud[p.uid], ok)
           answered == [uid |-> p.uid, phase |-> IF ok THEN "ok" ELSE "failed",
                        lifts |-> cloudData.lifts, workouts |-> cloudData.workouts]
       IN  /\ pulls' = BagAdd(BagRemove(pulls, p), answered, 1)
           /\ lastOp' = Op("GET", [uid |-> p.uid, ok |-> ok])
    /\ UNCHANGED <<isLoaded, userId, lifts, workouts, localStorage, activeTab, FormVars,
                   issyncing, pushes, cloud, now, storageFaulty>>

\* A loadFromCloud that adds the cloud's records to the local ones.
PullDeliverMerge(p) ==
    /\ p \in DOMAIN pulls
    /\ p.phase \in {"ok", "failed"}
    /\ IF Len(p.lifts) > 0 \/ Len(p.workouts) > 0
       THEN LET ls == lifts \o p.lifts
                ws == workouts \o p.workouts
            IN  /\ \E ok1, ok2 \in WriteOutcomes :
                      localStorage' =
                          SetValue(SetValue(localStorage, LiftsKey(p.uid), ls, ok1),
                                   WorkoutsKey(p.uid), ws, ok2)
                /\ Commit([Current EXCEPT !.lifts = ls, !.workouts = ws,
                                          !.pulls = BagRemove(@, p)],
                          userId, isLoaded, activeTab, Op("loadFromCloud", p))
       ELSE /\ pulls' = BagRemove(pulls, p)
            /\ lastOp' = Op("loadFromCloud", p)
            /\ UNCHANGED <<lifts, workouts, localStorage, issyncing, pushes>>
    /\ UNCHANGED <<isLoaded, userId, activeTab, FormVars, cloud, now, storageFaulty>>

\* The rest of loadFromCloud, once loadDataFromCloud has resolved.  setLifts
\* and setWorkouts are those of the render that issued the request (their key
\* is the user's), and the two setItem calls that follow write the same keys;
\* the first of them to throw skips the other.
PullDeliver(p) ==
    /\ p \in DOMAIN pulls
    /\ p.phase \in {"ok", "failed"}
    /\ IF Len(p.lifts) > 0 \/ Len(p.workouts) > 0
       THEN /\ \E ok1, ok2, ok3, ok4 \in WriteOutcomes :
                 localStorage' =
                     LET s1 == SetValue(localStorage, LiftsKey(p.uid), p.lifts, ok1)
                         s2 == SetValue(s1, WorkoutsKey(p.uid), p.workouts, ok2)
                         s3 == SetItem(s2, LiftsKey(p.uid), p.lifts, ok3)
                     IN  SetItem(s3, WorkoutsKey(p.uid), p.workouts, ok3 /\ ok4)
            /\ Commit([Current EXCEPT !.lifts = p.lifts, !.workouts = p.workouts,
                                      !.pulls = BagRemove(@, p)],
                      userId, isLoaded, activeTab, Op("loadFromCloud", p))
       ELSE /\ pulls' = BagRemove(pulls, p)
            /\ lastOp' = Op("loadFromCloud", p)
            /\ UNCHANGED <<lifts, workouts, localStorage, issyncing, pushes>>
    /\ UNCHANGED <<isLoaded, userId, activeTab, FormVars, cloud, now, storageFaulty>>

\* A route that adds the posted lists to the ones the profile holds.
POSTAppend(metadata, q, clock) ==
    [lifts |-> metadata.lifts \o q.lifts, workouts |-> metadata.workouts \o q.workouts,
     lastSync |-> ToISOString(clock)]

\* POST /api/sync-data: updateUserMetadata with the posted lists and the time,
\* or a failure (the request does not arrive, or the route answers 500).
POST(metadata, q, clock) ==
    [lifts |-> q.lifts, workouts |-> q.workouts, lastSync |-> ToISOString(clock)]

\* A push whose body is read from the lists when the request is served.
PushServeCurrent(q, ok) ==
    /\ q \in DOMAIN pushes
    /\ q.phase = "sent"
    /\ cloud' = IF ok THEN [cloud EXCEPT ![q.uid] = POST(@, PushReq(q.uid, lifts, workouts), now)]
                 ELSE cloud
    /\ pushes' = BagAdd(BagRemove(pushes, q),
                        [uid |-> q.uid, phase |-> "answered", ok |-> ok], 1)
    /\ lastOp' = Op("POST", [uid |-> q.uid, ok |-> ok,
                             repeat |-> (cloud[q.uid].lifts = q.lifts
                                            /\ cloud[q.uid].workouts = q.workouts)])
    /\ UNCHANGED <<isLoaded, userId, lifts, workouts, localStorage, activeTab, FormVars,
                   issyncing, pulls, now, storageFaulty>>

PushServe(q, ok) ==
    /\ q \in DOMAIN pushes
    /\ q.phase = "sent"
    /\ cloud' = IF ok THEN [cloud EXCEPT ![q.uid] = POST(@, q, now)] ELSE cloud
    /\ pushes' = BagAdd(BagRemove(pushes, q),
                        [uid |-> q.uid, phase |-> "answered", ok |-> ok], 1)
    /\ lastOp' = Op("POST", [uid |-> q.uid, ok |-> ok,
                             repeat |-> (cloud[q.uid].lifts = q.lifts
                                            /\ cloud[q.uid].workouts = q.workouts)])
    /\ UNCHANGED <<isLoaded, userId, lifts, workouts, localStorage, activeTab, FormVars,
                   issyncing, pulls, now, storageFaulty>>

\* A syncToCloud that resets the flag after a successful request only.
PushCompleteNoFinally(q) ==
    /\ q \in DOMAIN pushes
    /\ q.phase = "answered"
    /\ Commit([Current EXCEPT !.issyncing = ~q.ok, !.pushes = BagRemove(@, q)],
              userId, isLoaded, activeTab, Op("syncDone", q))
    /\ UNCHANGED <<isLoaded, userId, localStorage, activeTab, FormVars, cloud, now,
                   storageFaulty>>

\* The rest of syncToCloud, once syncDataToCloud has resolved (it resolves
\* whether the request succeeded or not): finally setIsSyncing(false).
PushComplete(q) ==
    /\ q \in DOMAIN pushes
    /\ q.phase = "answered"
    /\ Commit([Current EXCEPT !.issyncing = FALSE, !.pushes = BagRemove(@, q)],
              userId, isLoaded, activeTab, Op("syncDone", q))
    /\ UNCHANGED <<isLoaded, userId, localStorage, activeTab, FormVars, cloud, now,
                   storageFaulty>>

\* A millisecond passes.
Tick ==
    /\ now < MaxClock
    /\ now' = now + 1
    /\ lastOp' = Op("tick", <<>>)
    /\ UNCHANGED <<isLoaded, userId, lifts, workouts, localStorage, activeTab, FormVars,
                   issyncing, pulls, pushes, cloud, storageFaulty>>

NameInputs == {<<"a">>}

LocalNameInputs == {<<" ">>, <<" ", "a">>}

WeightInputs == {<<"1", "0", "0">>}

RepsInputs == {<<"5">>, <<"0">>}

SetsInputs == {<<"3">>}

DifficultyInputs == {3, 4}

SyncTabs == {"dashboard", "lifts"}

LiftIds == {DecString(n) : n \in 0..MaxClock}

\* The signed-in application: identity, exercises, sync.
Next ==
    \/ \E u \in {<<>>} \cup Users : ClerkLoaded(u)
    \/ \E u \in {<<>>} \cup Users : IdentityChange(u)
    \/ \E tab \in SyncTabs : SetActiveTab(tab)
    \/ \E str \in NameInputs : SetNewLiftName(str)
    \/ Len(lifts) < MaxSyncLifts /\ AddLift
    \/ \E id \in LiftIds : DeleteLift(id)
    \/ ManualSync
    \/ \E p \in DOMAIN pulls, ok \in BOOLEAN : PullServe(p, ok)
    \/ \E p \in DOMAIN pulls : PullDeliver(p)
    \/ \E q \in DOMAIN pushes, ok \in BOOLEAN : PushServe(q, ok)
    \/ \E q \in DOMAIN pushes : PushComplete(q)

Spec == Init /\ [][Next]_vars

\* The anonymous application: exercises, the log form, history.
NextLocal ==
    \/ ClerkLoaded(<<>>)
    \/ \E tab \in Tabs : SetActiveTab(tab)
    \/ \E str \in LocalNameInputs : SetNewLiftName(str)
    \/ \E id \in {<<>>} \cup LiftIds : SetSelectedLiftId(id)
    \/ \E str \in WeightInputs : SetWeight(str)
    \/ \E str \in RepsInputs : SetReps(str)
    \/ \E str \in SetsInputs : SetSets(str)
    \/ \E level \in DifficultyInputs : SetDifficulty(level)
    \/ Len(lifts) < MaxLifts /\ AddLift
    \/ \E id \in LiftIds : DeleteLift(id)
    \/ Len(workouts) < MaxWorkouts /\ LogWorkout
    \/ \E id \in LiftIds : DeleteWorkout(id)
    \/ Tick

SpecLocal == InitLocal /\ [][NextLocal]_vars

\* The anonymous application over a localStorage whose setItem may throw
\* (quota exceeded, storage disabled).
InitFaulty ==
    /\ Mounted(NoStore)
    /\ cloud = [u \in Users |-> EmptyMetadata]
    /\ storageFaulty = TRUE

FaultyTabs == {"log", "lifts", "history"}

NextFaulty ==
    \/ ClerkLoaded(<<>>)
    \/ \E tab \in FaultyTabs : SetActiveTab(tab)
    \/ \E str \in NameInputs : SetNewLiftName(str)
    \/ \E id \in LiftIds : SetSelectedLiftId(id)
    \/ \E str \in WeightInputs : SetWeight(str)
    \/ \E str \in RepsInputs : SetReps(str)
    \/ \E str \in SetsInputs : SetSets(str)
    \/ Len(lifts) < MaxFaultyLifts /\ AddLift
    \/ \E id \in LiftIds : DeleteLift(id)
    \/ Len(workouts) < MaxFaultyWorkouts /\ LogWorkout
    \/ \E id \in LiftIds : DeleteWorkout(id)

SpecFaulty == InitFaulty /\ [][NextFaulty]_vars

(***************************************************************************)
(* Properties of the record store's operations and of the sync bridge.     *)
(***************************************************************************)
\* after is the list of before's elements at the indices in S, in their order.
IsSelection(after, before, S) ==
    /\ Len(after) = Cardinality(S)
    /\ \A j \in S : after[Cardinality({k \in S : k <= j})] = before[j]

\* C1: deleteLift(E) removes the lifts of id E and the workouts of liftId E,
\* and keeps every other lift and every other workout in its previous order.
C1_DeleteLiftCascade ==
    lastOp.op = "deleteLift" =>
        LET before == lastOp.before
        IN  /\ IsSelection(lifts, before.lifts,
                           {j \in 1..Len(before.lifts) : before.lifts[j].id # lastOp.arg})
            /\ IsSelection(workouts, before.workouts,
                           {j \in 1..Len(before.workouts) :
                               before.workouts[j].liftId # lastOp.arg})

\* C1 witness: of two lifts with a workout each, one lift and its workout go,
\* the other lift and its workout stay.
C1_Witness ==
    /\ lastOp.op = "deleteLift"
    /\ Len(lastOp.before.lifts) = 2
    /\ Len(lastOp.before.workouts) = 2
    /\ Len(lifts) = 1
    /\ Len(workouts) = 1
    /\ workouts[1].liftId = lifts[1].id

StoredList(key) == ReadStored(localStorage, key, ArrayValue(<<>>), "ok")

\* The last step was a logWorkout that created an entry (now workouts[1]).
EntryLogged == lastOp.op = "logWorkout" /\ Len(workouts) = Len(lastOp.before.workouts) + 1

\* C13: the liftId of an entry that logWorkout has created is the id of a
\* lift of the list.
C13_LiftIdReferencesLift ==
    EntryLogged => \E i \in 1..Len(lifts) : lifts[i].id = workouts[1].liftId

\* This step is an addLift with an empty or blank name, or a logWorkout with a
\* field missing.
IncompleteSubmission ==
    \/ lastOp'.op = "addLift" /\ Trim(newLiftName) = <<>>
    \/ /\ lastOp'.op = "logWorkout"
       /\ selectedLiftId = <<>> \/ weight = <<>> \/ reps = <<>> \/ sets = <<>>

\* C14: a submission with a missing field creates no entry and leaves the two
\* lists, localStorage and the form fields as they are.
C14_IncompleteSubmissionNoOp ==
    [][IncompleteSubmission => UNCHANGED <<lifts, workouts, localStorage, FormVars>>]_vars

\* C14 witness: addLift has been called with a blank name next to an existing
\* lift, and the name field still holds the blank.
C14_Witness ==
    /\ lastOp.op = "addLift"
    /\ newLiftName = <<" ">>
    /\ Len(lifts) = 1
    /\ lifts = lastOp.before.lifts

IsCount(x) == x.t = "num" /\ x.v >= 1

\* C23: every workout entry of the list has a weight that is a number >= 0,
\* reps and sets that are integers >= 1, and a difficulty in 1..5.
C23_FieldRanges ==
    \A i \in 1..Len(workouts) :
        /\ workouts[i].weight.t = "num" /\ workouts[i].weight.v >= 0
        /\ IsCount(workouts[i].reps)
        /\ IsCount(workouts[i].sets)
        /\ workouts[i].difficulty \in 1..5

\* C24: no two lifts of the list have the same id.
C24_UniqueLiftIds ==
    \A i, j \in 1..Len(lifts) : i # j => lifts[i].id # lifts[j].id

\* C15: deleteWorkout removes one entry, the one with the id given, and leaves
\* every other entry and the lift list as they are.
C15_DeleteWorkoutRemovesOne ==
    lastOp.op = "deleteWorkout" =>
        LET before == lastOp.before
        IN  /\ lifts = before.lifts
            /\ \E i \in 1..Len(before.workouts) :
                  /\ before.workouts[i].id = lastOp.arg
                  /\ workouts = SubSeq(before.workouts, 1, i - 1)
                                    \o SubSeq(before.workouts, i + 1, Len(before.workouts))

\* C17: a change of identity issues at most one pull and one push, and an
\* edit, a tab switch, form input, the arrival of a pull's answer or the end of
\* a push issues none.
C17_SyncOnlyOnIdentityChange ==
    /\ lastOp.op \in {"clerkLoaded", "identityChange"} =>
          lastOp.pullsIssued <= 1 /\ lastOp.pushesIssued <= 1
    /\ lastOp.op \in {"input", "addLift", "deleteLift", "logWorkout", "deleteWorkout",
                      "loadFromCloud", "syncDone"} =>
          lastOp.pullsIssued = 0 /\ lastOp.pushesIssued = 0

\* C25: a step that switches the tab leaves the lift list, the workout list,
\* localStorage and the remote profiles as they were and issues no pull and no
\* push.
C25_TabSwitchFrame ==
    [][activeTab' # activeTab =>
          /\ lifts' = lifts /\ workouts' = workouts
          /\ localStorage' = localStorage /\ cloud' = cloud
          /\ pulls' = pulls /\ pushes' = pushes]_vars

\* C19: after deleteLift(E), if the stored lift list no longer holds E, the
\* stored workout list holds no entry with liftId E.
C19_StoredCascade ==
    lastOp.op = "deleteLift" =>
        LET ls == StoredList(LiftsKey(StorageKey(userId))).items
            ws == StoredList(WorkoutsKey(StorageKey(userId))).items
        IN  (\A i \in 1..Len(ls) : ls[i].id # lastOp.arg)
                => (\A j \in 1..Len(ws) : ws[j].liftId # lastOp.arg)

NonEmptyAnswer(p) == Len(p.lifts) > 0 \/ Len(p.workouts) > 0

EmptyAnswerDelivered(p) ==
    /\ p \in DOMAIN pulls
    /\ p.phase = "ok"
    /\ ~NonEmptyAnswer(p)
    /\ lastOp'.op = "loadFromCloud"
    /\ lastOp'.arg = p

PushPending(uid) == issyncing /\ \E q \in DOMAIN pushes : q.uid = uid

\* C3: when loadFromCloud finds the user's remote lists empty, the local lists
\* stay as they are, in memory and in storage, and, if the user is signed in
\* with a non-empty local list, a push of that user is under way.
C3_EmptyPullKeepsLocalAndPushes ==
    [][\A p \in DOMAIN pulls :
          EmptyAnswerDelivered(p) =>
              /\ lifts' = lifts
              /\ workouts' = workouts
              /\ localStorage' = localStorage
              /\ (userId = p.uid /\ (Len(lifts) > 0 \/ Len(workouts) > 0)) =>
                    PushPending(p.uid)']_vars

\* C3 witness: an empty answer has come to a signed-in user with local lists,
\* and the push carries them.
C3_Witness ==
    /\ lastOp.op = "loadFromCloud"
    /\ lastOp.arg.phase = "ok"
    /\ ~NonEmptyAnswer(lastOp.arg)
    /\ userId = lastOp.arg.uid
    /\ Len(lifts) > 0
    /\ Len(workouts) > 0
    /\ \E q \in DOMAIN pushes :
          q.phase = "sent" /\ q.lifts = EncodeList(lifts) /\ q.workouts = EncodeList(workouts)

\* C4: after a change of identity the lists in memory are the ones stored
\* under the keys of the new identity.
C4_ActivePartitionLoaded ==
    lastOp.op \in {"clerkLoaded", "identityChange"} =>
        /\ ArrayValue(lifts) = StoredList(LiftsKey(StorageKey(userId)))
        /\ ArrayValue(workouts) = StoredList(WorkoutsKey(StorageKey(userId)))

\* The last step called setLifts / setWorkouts.
LiftsSet ==
    \/ lastOp.op = "deleteLift"
    \/ lastOp.op = "addLift" /\ Len(lifts) = Len(lastOp.before.lifts) + 1

WorkoutsSet == lastOp.op \in {"deleteLift", "deleteWorkout"} \/ EntryLogged

\* C20: after a setValue, whether setItem succeeded or threw, the list in
\* memory is the list stored under the key of the active partition.
C20_MemoryEqualsStored ==
    /\ LiftsSet => ArrayValue(lifts) = StoredList(LiftsKey(StorageKey(userId)))
    /\ WorkoutsSet => ArrayValue(workouts) = StoredList(WorkoutsKey(StorageKey(userId)))

\* The push q is answered in this step, with success.
Posted(q) ==
    /\ q \in DOMAIN pushes
    /\ q.phase = "sent"
    /\ lastOp'.op = "POST"
    /\ lastOp'.arg.ok
    /\ pushes' = BagAdd(BagRemove(pushes, q), [uid |-> q.uid, phase |-> "answered", ok |-> TRUE], 1)

\* C12: a successful push leaves the user's remote lists equal to the lists
\* pushed, whatever they were before; pushing lists the remote already holds
\* changes nothing of the profile but lastSync, which is the time of the push.
C12_PushIdempotent ==
    [][\A q \in DOMAIN pushes :
          Posted(q) =>
              /\ cloud'[q.uid].lifts = q.lifts
              /\ cloud'[q.uid].workouts = q.workouts
              /\ cloud'[q.uid].lastSync = ToISOString(now)
              /\ (cloud[q.uid].lifts = q.lifts /\ cloud[q.uid].workouts = q.workouts) =>
                    cloud' = [cloud EXCEPT ![q.uid].lastSync = ToISOString(now)]]_vars

\* C12 witness: non-empty lists have been pushed with success to a profile
\* that held the same lists.
C12_Witness ==
    /\ lastOp.op = "POST"
    /\ lastOp.arg.ok
    /\ lastOp.arg.repeat
    /\ Len(cloud[lastOp.arg.uid].lifts) > 0
    /\ Len(cloud[lastOp.arg.uid].workouts) > 0

\* C18: while a pull of the user has not been answered, no push changes the
\* lists of a remote profile that holds data: the push waits for the pull.
C18_PullThenDecide ==
    [][\A q \in DOMAIN pushes :
          (/\ Posted(q)
           /\ Len(cloud[q.uid].lifts) > 0 \/ Len(cloud[q.uid].workouts) > 0
           /\ \E p \in DOMAIN pulls : p.uid = q.uid /\ p.phase = "sent")
              => (/\ cloud'[q.uid].lifts = cloud[q.uid].lifts
                  /\ cloud'[q.uid].workouts = cloud[q.uid].workouts)]_vars

\* A pull of the user has failed: its answer waits to be handled, or has just
\* been handled.
PullFailed(uid) ==
    \/ \E p \in DOMAIN pulls : p.uid = uid /\ p.phase = "failed"
    \/ lastOp.op = "loadFromCloud" /\ lastOp.arg.uid = uid /\ lastOp.arg.phase = "failed"

\* C21: when a pull of the user has failed, a push does not change the lists
\* the user's remote profile holds.
C21_FailedPullKeepsRemote ==
    [][\A q \in DOMAIN pushes :
          (Posted(q) /\ PullFailed(q.uid))
              => (/\ cloud'[q.uid].lifts = cloud[q.uid].lifts
                  /\ cloud'[q.uid].workouts = cloud[q.uid].workouts)]_vars

\* C22: the is-syncing flag is set only while a push is under way, and the
\* step that ends a push, answered with success or not, takes the push away
\* and leaves the flag reset, unless the render that follows the reset has
\* started a new push.
C22_SyncingFlagReset ==
    [][/\ issyncing' => pushes' # EmptyBag
       /\ lastOp'.op = "syncDone" =>
             /\ lastOp'.arg \in DOMAIN pushes
             /\ pushes' = BagAdd(BagRemove(pushes, lastOp'.arg), PushReq(userId, lifts', workouts'),
                                 lastOp'.pushesIssued)
             /\ issyncing' = (lastOp'.pushesIssued = 1)]_vars

\* C22 witness: a push that failed has ended and the flag is reset, no push
\* being under way.
C22_Witness ==
    /\ lastOp.op = "syncDone"
    /\ ~lastOp.arg.ok
    /\ ~issyncing
    /\ pushes = EmptyBag

FailedStep ==
    \/ lastOp'.op = "GET" /\ ~lastOp'.arg.ok
    \/ lastOp'.op = "loadFromCloud" /\ lastOp'.arg.phase = "failed"
    \/ lastOp'.op = "POST" /\ ~lastOp'.arg.ok
    \/ lastOp'.op = "syncDone" /\ ~lastOp'.arg.ok

\* C7: a step of a failed pull or a failed push (the request failing, and the
\* handler going on after it) leaves the lists as they are, in memory and in
\* localStorage.
C7_FailureKeepsLocal ==
    [][FailedStep => (lifts' = lifts /\ workouts' = workouts /\ localStorage' = localStorage)]_vars

\* C7 witness: a pull of a profile that holds data has failed and the local
\* lists, which differ from the profile's, are in place; and a push has failed.
C7_Witness ==
    /\ lastOp.op = "loadFromCloud"
    /\ lastOp.arg.phase = "failed"
    /\ Len(cloud[lastOp.arg.uid].lifts) > 0
    /\ Len(lifts) > 0
    /\ lifts # cloud[lastOp.arg.uid].lifts
    /\ \E q \in DOMAIN pushes : q.phase = "answered" /\ ~q.ok

(***************************************************************************)
(* Editing while signed in: the four edits with requests in flight.       *)
(***************************************************************************)
MaxEditLifts == 2

MaxEditWorkouts == 2

EditTabs == {"log", "lifts", "history"}

EditRepsInputs == {<<"5">>}

NextEdit ==
    \/ \E u \in Users : ClerkLoaded(u)
    \/ \E tab \in EditTabs : SetActiveTab(tab)
    \/ \E str \in NameInputs : SetNewLiftName(str)
    \/ \E id \in LiftIds : SetSelectedLiftId(id)
    \/ \E str \in WeightInputs : SetWeight(str)
    \/ \E str \in EditRepsInputs : SetReps(str)
    \/ \E str \in SetsInputs : SetSets(str)
    \/ Len(lifts) < MaxEditLifts /\ AddLift
    \/ \E id \in LiftIds : DeleteLift(id)
    \/ Len(workouts) < MaxEditWorkouts /\ LogWorkout
    \/ \E id \in LiftIds : DeleteWorkout(id)
    \/ \E p \in DOMAIN pulls : PullServe(p, TRUE)
    \/ \E p \in DOMAIN pulls : PullDeliver(p)
    \/ \E q \in DOMAIN pushes : PushServe(q, TRUE)
    \/ \E q \in DOMAIN pushes : PushComplete(q)

SpecEdit == Init /\ [][NextEdit]_vars

EditOps == {"addLift", "deleteLift", "logWorkout", "deleteWorkout"}

\* The step is an edit that changes the lists.
EditStep ==
    \/ lastOp'.op = "addLift" /\ Trim(newLiftName) # <<>>
    \/ lastOp'.op = "logWorkout" /\ ~IncompleteSubmission
    \/ lastOp'.op \in {"deleteLift", "deleteWorkout"}

\* C27: an edit made while requests are in flight changes the local lists as
\* it does otherwise (the new lift appended, the new entry put first, the
\* deleted records filtered out) and leaves every push in flight with the
\* lists it was issued with; a push that reaches the route stores the lists it
\* was issued with.
C27_NoLock ==
    [][/\ (EditStep /\ (pulls # EmptyBag \/ pushes # EmptyBag)) =>
              /\ lastOp'.op = "addLift" =>
                    lifts' = Append(lifts, lastOp'.arg) /\ workouts' = workouts
              /\ lastOp'.op = "logWorkout" =>
                    workouts' = <<lastOp'.arg>> \o workouts /\ lifts' = lifts
              /\ lastOp'.op = "deleteLift" =>
                    /\ lifts' = SelectSeq(lifts, LAMBDA l : l.id # lastOp'.arg)
                    /\ workouts' = SelectSeq(workouts, LAMBDA w : w.liftId # lastOp'.arg)
              /\ lastOp'.op = "deleteWorkout" =>
                    /\ workouts' = SelectSeq(workouts, LAMBDA w : w.id # lastOp'.arg)
                    /\ lifts' = lifts
              /\ \A q \in DOMAIN pushes :
                    q.phase = "sent" => q \in DOMAIN pushes' /\ pushes'[q] >= pushes[q]
       /\ lastOp'.op = "POST" =>
              (lastOp'.arg.ok =>
                 \E q \in DOMAIN pushes :
                    /\ q.phase = "sent"
                    /\ q \notin DOMAIN pushes' \/ pushes'[q] < pushes[q]
                    /\ cloud'[q.uid].lifts = q.lifts
                    /\ cloud'[q.uid].workouts = q.workouts)]_vars

\* C27 witness: a workout was logged while a pull and a push were in flight;
\* the push still holds the lists from before the edit.
C27_Witness ==
    /\ lastOp.op = "logWorkout"
    /\ workouts # lastOp.before.workouts
    /\ lastOp.pullsIssued = 1 /\ BagSize(pulls) >= 2
    /\ \E q \in DOMAIN pushes :
          /\ q.phase = "sent"
          /\ q.workouts = EncodeList(lastOp.before.workouts)
          /\ q.workouts # EncodeList(workouts)

\* Ids of lifts added in this session: the clock's values.
SessionIds == {DecString(n) : n \in FirstClock..MaxClock}

\* The local list holds every lift of the user's remote profile: what the
\* profile held at sign-in has been taken in, and pushes have stored local data.
RemoteTakenIn ==
    /\ userId # <<>>
    /\ \A k \in 1..Len(cloud[userId].lifts) :
          \E i \in 1..Len(lifts) : EncodeRecord(lifts[i]) = cloud[userId].lifts[k]

\* C28: when the local list holds everything the remote profile holds, a lift
\* the signed-in user added in this session is still in the list after the
\* answer of a pull is handled.
C28_AddedRecordSurvivesPull ==
    [][(lastOp'.op = "loadFromCloud" /\ RemoteTakenIn) =>
          \A i \in 1..Len(lifts) :
              lifts[i].id \in SessionIds => \E j \in 1..Len(lifts') : lifts'[j] = lifts[i]]_vars

(***************************************************************************)
(* A sign-in after which the user does nothing: only the requests go on,   *)
(* and every request in flight is answered and its answer handled.  Every  *)
(* answer of a pull that holds data renders and so issues the next pull,   *)
(* and every finished push issues two pulls and a push: the number of      *)
(* requests in flight only grows.  Here a request is kept in the bag once  *)
(* however many identical ones are in flight; the others are answered from *)
(* the same profile and handled when their answer equals the local lists,  *)
(* where handling changes nothing but to issue the next pull.              *)
(***************************************************************************)
Coalesce(b) == [x \in DOMAIN b |-> 1]

CommitCoalesced(s, uid, loaded, tab, op) ==
    LET r == Render(s, uid, loaded, tab)
    IN  /\ lifts' = r.lifts
        /\ workouts' = r.workouts
        /\ issyncing' = r.issyncing
        /\ pulls' = Coalesce(r.pulls)
        /\ pushes' = Coalesce(r.pushes)
        /\ lastOp' = [op EXCEPT !.pullsIssued = r.pullsIssued,
                                !.pushesIssued = r.pushesIssued]

PullDeliverCoalesced(p) ==
    /\ p \in DOMAIN pulls
    /\ p.phase \in {"ok", "failed"}
    /\ IF Len(p.lifts) > 0 \/ Len(p.workouts) > 0
       THEN /\ \E ok1, ok2, ok3, ok4 \in WriteOutcomes :
                 localStorage' =
                     LET s1 == SetValue(localStorage, LiftsKey(p.uid), p.lifts, ok1)
                         s2 == SetValue(s1, WorkoutsKey(p.uid), p.workouts, ok2)
                         s3 == SetItem(s2, LiftsKey(p.uid), p.lifts, ok3)
                     IN  SetItem(s3, WorkoutsKey(p.uid), p.workouts, ok3 /\ ok4)
            /\ CommitCoalesced([Current EXCEPT !.lifts = p.lifts, !.workouts = p.workouts,
                                               !.pulls = BagRemove(@, p)],
                               userId, isLoaded, activeTab, Op("loadFromCloud", p))
       ELSE /\ pulls' = BagRemove(pulls, p)
            /\ lastOp' = Op("loadFromCloud", p)
            /\ UNCHANGED <<lifts, workouts, localStorage, issyncing, pushes>>
    /\ UNCHANGED <<isLoaded, userId, activeTab, FormVars, cloud, now, storageFaulty>>

PushCompleteCoalesced(q) ==
    /\ q \in DOMAIN pushes
    /\ q.phase = "answered"
    /\ CommitCoalesced([Current EXCEPT !.issyncing = FALSE, !.pushes = BagRemove(@, q)],
                       userId, isLoaded, activeTab, Op("syncDone", q))
    /\ UNCHANGED <<isLoaded, userId, localStorage, activeTab, FormVars, cloud, now,
                   storageFaulty>>

\* The answers a pull can get: the lists a profile can hold.
PullAnswers ==
    {[uid |-> u, phase |-> "ok", lifts |-> m.lifts, workouts |-> m.workouts] :
        u \in Users,
        m \in {EmptyMetadata, SampleMetadata,
               [lifts |-> ReadStored(SampleStore, LiftsKey(Anonymous), ArrayValue(<<>>), "ok").items,
                workouts |-> ReadStored(SampleStore, WorkoutsKey(Anonymous), ArrayValue(<<>>),
                                        "ok").items]}}

NextCoalesced ==
    \/ \E u \in Users : ClerkLoaded(u)
    \/ \E p \in DOMAIN pulls, ok \in BOOLEAN : PullServe(p, ok)
    \/ \E p \in DOMAIN pulls : PullDeliverCoalesced(p)
    \/ \E q \in DOMAIN pushes, ok \in BOOLEAN : PushServe(q, ok)
    \/ \E q \in DOMAIN pushes : PushCompleteCoalesced(q)

\* Every request is answered and every answer handled, whatever it holds.
EveryRequestCompletes ==
    /\ WF_vars(\E p \in DOMAIN pulls, ok \in BOOLEAN : PullServe(p, ok))
    /\ \A p \in PullAnswers : WF_vars(PullDeliverCoalesced(p))
    /\ WF_vars(\E p \in DOMAIN pulls : PullDeliverCoalesced(p))
    /\ WF_vars(\E q \in DOMAIN pushes, ok \in BOOLEAN : PushServe(q, ok))
    /\ WF_vars(\E q \in DOMAIN pushes : PushCompleteCoalesced(q))

SpecCoalesced == Init /\ [][NextCoalesced]_vars /\ EveryRequestCompletes

\* C29: from some point on no pull and no push is in flight.
C29_SyncQuiesces == <>[](pulls = EmptyBag /\ pushes = EmptyBag)

\* The remote profile of the signed-in user holds the local lists.
RemoteEqualsLocal ==
    userId # <<>> =>
        /\ cloud[userId].lifts = EncodeList(lifts)
        /\ cloud[userId].workouts = EncodeList(workouts)

RequestFailed == lastOp.op \in {"GET", "POST"} /\ ~lastOp.arg.ok

\* C30: unless a request fails, from some point on the remote profile of the
\* signed-in user holds the local lists.
C30_Converges == (<>RequestFailed) \/ <>[]RemoteEqualsLocal

(***************************************************************************)
(* The metrics functions applied to given workout lists.                   *)
(***************************************************************************)
Call(name, arg, ret) == [op |-> name, arg |-> arg, ret |-> ret]

\* Entries that differ in exercise, weight, reps and date.
RichBodies ==
    [liftId : {<<"1">>, <<"2">>}, weight : {Num(100), Num(105)}, reps : {Num(5), Num(8)},
     sets : {Num(3)}, difficulty : {3}, date : 1..MaxDate]

\* Entries that differ in date only.
DatedBodies ==
    [liftId : {<<"1">>}, weight : {Num(100)}, reps : {Num(5)}, sets : {Num(3)},
     difficulty : {3}, date : 1..MaxDate]

\* Entries as logWorkout makes them of the inputs "0", "-5", ".5", and as they
\* are after JSON has turned NaN into null.
OddBodies ==
    [liftId : {<<"1">>},
     weight : {ParseFloat(<<"0">>), ParseFloat(<<"-", "5">>)},
     reps : {ParseInt(<<"5">>), ParseInt(<<".", "5">>), EncodeNumber(ParseInt(<<".", "5">>))},
     sets : {Num(3)}, difficulty : {3}, date : {1}]

\* The i-th entry of a list gets the id i.
ListsOf(bodies, maxLen) ==
    UNION {{[i \in 1..n |->
                WorkoutEntry(DecString(i), f[i].liftId, f[i].weight, f[i].reps, f[i].sets,
                             f[i].difficulty, ToISOString(f[i].date))] :
            f \in [1..n -> bodies]} : n \in 0..maxLen}

MetricLists ==
    ListsOf(RichBodies, MaxRichLen) \cup ListsOf(DatedBodies, MaxRecentLen)
        \cup ListsOf(OddBodies, MaxOddLen)

Idle ==
    /\ isLoaded = TRUE
    /\ userId = <<>>
    /\ localStorage = NoStore
    /\ activeTab = "dashboard"
    /\ newLiftName = <<>>
    /\ selectedLiftId = <<>>
    /\ weight = <<>>
    /\ reps = <<>>
    /\ sets = <<>>
    /\ difficulty = 3
    /\ issyncing = FALSE
    /\ pulls = EmptyBag
    /\ pushes = EmptyBag
    /\ cloud = [u \in Users |-> EmptyMetadata]
    /\ now = FirstClock
    /\ storageFaulty = FALSE
    /\ lastOp = Op("mount", <<>>)

IdleVars ==
    <<isLoaded, userId, localStorage, activeTab, FormVars, issyncing, pulls, pushes,
      cloud, now, storageFaulty>>

InitMetrics ==
    /\ workouts \in MetricLists
    /\ lifts = <<>>
    /\ Idle

MetricsCall ==
    /\ lastOp' = Call("getMetrics", workouts, GetMetrics(workouts, now))
    /\ UNCHANGED <<lifts, workouts, IdleVars>>

ProgressionCall(liftId) ==
    /\ lastOp' = Call("getExerciseProgression", [workouts |-> workouts, liftId |-> liftId],
                      GetExerciseProgression(workouts, liftId))
    /\ UNCHANGED <<lifts, workouts, IdleVars>>

RecentCall ==
    /\ lastOp' = Call("getRecentWorkouts", workouts, GetRecentWorkouts(workouts).result)
    /\ workouts' = GetRecentWorkouts(workouts).array
    /\ UNCHANGED <<lifts, IdleVars>>

NextMetrics ==
    \/ MetricsCall
    \/ \E liftId \in {<<"1">>, <<"2">>} : ProgressionCall(liftId)
    \/ RecentCall

SpecMetrics == InitMetrics /\ [][NextMetrics]_vars

(***************************************************************************)
(* Properties of the metrics functions.                                    *)
(***************************************************************************)
\* The entry at i is sorted after the entry at j by a stable ascending sort.
SortedAfter(ws, i, j) ==
    \/ GetTime(ws[i].date) > GetTime(ws[j].date)
    \/ GetTime(ws[i].date) = GetTime(ws[j].date) /\ i > j

LatestOf(ws, S) == CHOOSE i \in S : \A j \in S \ {i} : SortedAfter(ws, i, j)

Trend(latest, second) ==
    CASE JsGt(latest.weight, second.weight) -> "up"
      [] JsGt(second.weight, latest.weight) -> "down"
      [] JsGt(latest.reps, second.reps) -> "up"
      [] JsGt(second.reps, latest.reps) -> "down"
      [] OTHER -> "neutral"

ExpectedProgression(ws, liftId) ==
    LET S == {i \in 1..Len(ws) : ws[i].liftId = liftId}
    IN  IF Cardinality(S) < 2 THEN "neutral"
        ELSE LET r == LatestOf(ws, S)
                 p == LatestOf(ws, S \ {r})
             IN  Trend(ws[r], ws[p])

\* Other values of the sets and difficulty fields of an entry.
SetsAndDifficulty ==
    {[sets |-> Num(3), difficulty |-> 3], [sets |-> Num(5), difficulty |-> 3],
     [sets |-> Num(3), difficulty |-> 5]}

\* The lists that differ from ws in sets and difficulty fields only.
SetsDifficultyVariants(ws) ==
    {[i \in 1..Len(ws) |->
         [ws[i] EXCEPT !.sets = f[i].sets, !.difficulty = f[i].difficulty]] :
     f \in [1..Len(ws) -> SetsAndDifficulty]}

\* C26: getExerciseProgression gives the same result for every list that
\* differs from the given one only in the sets and difficulty of its entries.
C26_ProgressionIgnoresSetsAndDifficulty ==
    lastOp.op = "getExerciseProgression" =>
        \A ws \in SetsDifficultyVariants(lastOp.arg.workouts) :
            GetExerciseProgression(ws, lastOp.arg.liftId) = lastOp.ret

\* C26 witness: the latest two entries of the exercise tie in weight and reps,
\* so the comparison has run to its end.
C26_Witness ==
    /\ lastOp.op = "getExerciseProgression"
    /\ lastOp.ret = "neutral"
    /\ LET ws == lastOp.arg.workouts
           S == {i \in 1..Len(ws) : ws[i].liftId = lastOp.arg.liftId}
       IN  /\ Cardinality(S) = 2
           /\ \A i, j \in S : ws[i].weight = ws[j].weight /\ ws[i].reps = ws[j].reps
           /\ Cardinality(SetsDifficultyVariants(ws)) > 1

\* C8: getExerciseProgression(liftId) is neutral when fewer than two entries
\* have the liftId; otherwise it compares the exercise's latest entry by date
\* with its second-latest (of entries of one date, the one later in the list
\* counts as the later): up or down by weight, else up or down by reps, else
\* neutral.
C8_Progression ==
    lastOp.op = "getExerciseProgression" =>
        lastOp.ret = ExpectedProgression(lastOp.arg.workouts, lastOp.arg.liftId)

\* C8 witness: the weights of the latest two are equal and the reps decide,
\* the list is not in date order and holds an entry of another exercise.
C8_Witness ==
    /\ lastOp.op = "getExerciseProgression"
    /\ lastOp.ret = "down"
    /\ LET ws == lastOp.arg.workouts
           S == {i \in 1..Len(ws) : ws[i].liftId = lastOp.arg.liftId}
       IN  /\ Len(ws) = 3
           /\ Cardinality(S) = 2
           /\ \A i \in S : ws[i].weight = Num(100)
           /\ \E i, j \in S : i < j /\ GetTime(ws[i].date) < GetTime(ws[j].date)

Product(e) == JsMul(JsMul(e.weight, e.reps), e.sets)

RECURSIVE SumOfProducts(_)
SumOfProducts(ws) ==
    IF ws = <<>> THEN Num(0) ELSE JsAdd(Product(Last(ws)), SumOfProducts(Front(ws)))

RemoveAt(ws, i) == SubSeq(ws, 1, i - 1) \o SubSeq(ws, i + 1, Len(ws))

AllNumbers(ws) ==
    \A i \in 1..Len(ws) : ws[i].weight.t = "num" /\ ws[i].reps.t = "num" /\ ws[i].sets.t = "num"

Logged100x5x3 ==
    WorkoutEntry(<<"9">>, <<"1">>, Num(100), Num(5), Num(3), 3, ToISOString(MaxDate))

C11_PersonalRecordsCount ==
    lastOp.op = "getMetrics" =>
        /\ lastOp.ret.personalRecords
              = Cardinality({lastOp.arg[i].liftId : i \in 1..Len(lastOp.arg)})
        /\ lastOp.ret.personalRecords = lastOp.ret.uniqueExercises

\* C16: a call of getMetrics, getExerciseProgression or getRecentWorkouts
\* leaves the workouts list of the component as it is, in content and order.
C16_MetricsReadOnly ==
    [][lastOp'.op \in {"getMetrics", "getExerciseProgression", "getRecentWorkouts"}
          => workouts' = workouts]_vars

\* The place of the entry at i in the list sorted by descending date, entries
\* of one date staying in list order.
RankByDate(ws, i) ==
    Cardinality({j \in 1..Len(ws) : GetTime(ws[j].date) > GetTime(ws[i].date)})
        + Cardinality({j \in 1..i : GetTime(ws[j].date) = GetTime(ws[i].date)})

\* C10: getRecentWorkouts returns min(5, length) entries: those of greatest
\* date in descending date order, entries of one date in their list order.
C10_RecentWorkouts ==
    lastOp.op = "getRecentWorkouts" =>
        LET ws == lastOp.arg
            recent == lastOp.ret
        IN  /\ Len(recent) = (IF Len(ws) < 5 THEN Len(ws) ELSE 5)
            /\ \A i \in 1..Len(ws) :
                  RankByDate(ws, i) <= 5 => recent[RankByDate(ws, i)] = ws[i]

\* C10 witness: seven entries, the first of them of the least date, and
\* entries of one date among the five returned.
C10_Witness ==
    /\ lastOp.op = "getRecentWorkouts"
    /\ Len(lastOp.arg) = 7
    /\ Len(lastOp.ret) = 5
    /\ GetTime(lastOp.arg[1].date) < GetTime(lastOp.arg[7].date)
    /\ lastOp.ret[1] = lastOp.arg[3]
    /\ GetTime(lastOp.ret[4].date) = GetTime(lastOp.ret[5].date)

(***************************************************************************)
(* The record store alone: the two useLocalStorage hooks of the anonymous  *)
(* partition over a localStorage that holds whatever was left under their  *)
(* keys.                                                                   *)
(***************************************************************************)
\* Texts a key may hold: none, text that is not JSON, the JSON text null, the
\* empty string, and an array written by the application.
StoredTexts(list) ==
    {NoItem, [text |-> "unparseable"], [text |-> "null"], [text |-> "empty"],
     JSONStringify(list)}

StoreLifts ==
    {<<>>, <<Lift(<<"1">>, <<"a">>, ToISOString(1))>>,
     <<Lift(<<"1">>, <<"a">>, ToISOString(1)), Lift(<<"2">>, <<"b">>, ToISOString(2))>>}

StoreWorkouts == ListsOf(OddBodies, MaxOddLen)

InitStore ==
    /\ \E l \in StoredTexts(<<Lift(<<"1">>, <<"a">>, ToISOString(1))>>),
          w \in StoredTexts(<<WorkoutEntry(<<"1">>, <<"1">>, Num(100), Num(5), Num(3), 3,
                                           ToISOString(1))>>) :
          localStorage = [NoStore EXCEPT ![LiftsKey(Anonymous)] = l,
                                         ![WorkoutsKey(Anonymous)] = w]
    /\ lifts = <<>>
    /\ workouts = <<>>
    /\ isLoaded = FALSE
    /\ userId = <<>>
    /\ activeTab = "dashboard"
    /\ newLiftName = <<>>
    /\ selectedLiftId = <<>>
    /\ weight = <<>>
    /\ reps = <<>>
    /\ sets = <<>>
    /\ difficulty = 3
    /\ issyncing = FALSE
    /\ pulls = EmptyBag
    /\ pushes = EmptyBag
    /\ cloud = [u \in Users |-> EmptyMetadata]
    /\ now = FirstClock
    /\ storageFaulty = FALSE
    /\ lastOp = Call("none", <<>>, <<>>)

StoreIdleVars ==
    <<isLoaded, userId, activeTab, FormVars, issyncing, pulls, pushes, cloud, now,
      storageFaulty>>

\* The page is loaded: both hooks run their initialiser, and the first render
\* reads lifts.length and workouts.length, which throws on a value that has
\* no length; the component is then not mounted and holds no lists.
Mount(window) ==
    LET l == ReadStored(localStorage, LiftsKey(Anonymous), ArrayValue(<<>>), window)
        w == ReadStored(localStorage, WorkoutsKey(Anonymous), ArrayValue(<<>>), window)
        threw == l.kind # "array" \/ w.kind # "array"
    IN  /\ lifts' = IF threw THEN <<>> ELSE l.items
        /\ workouts' = IF threw THEN <<>> ELSE w.items
        /\ lastOp' = Call("useLocalStorage", window,
                          [lifts |-> l, workouts |-> w, threw |-> threw])
        /\ UNCHANGED <<localStorage, StoreIdleVars>>

\* setLifts(ls) and setWorkouts(ws) of the mounted component.
SetLists(ls, ws) ==
    /\ lastOp.op # "none"
    /\ ~lastOp.ret.threw
    /\ lifts' = ls
    /\ workouts' = ws
    /\ \E ok1, ok2 \in WriteOutcomes :
          localStorage' =
              SetValue(SetValue(localStorage, LiftsKey(Anonymous), ls, ok1),
                       WorkoutsKey(Anonymous), ws, ok2)
    /\ lastOp' = Call("setValue", [lifts |-> ls, workouts |-> ws], [threw |-> FALSE])
    /\ UNCHANGED StoreIdleVars

NextStore ==
    \/ \E window \in {"ok", "undefined", "throws"} : Mount(window)
    \/ \E ls \in StoreLifts, ws \in StoreWorkouts : SetLists(ls, ws)

SpecStore == InitStore /\ [][NextStore]_vars

\* C5: lists written with the set operation and read back by a fresh
\* initialisation of the hooks are the lists that were written.
C5_RoundTrip ==
    [][(lastOp.op = "setValue" /\ lastOp'.op = "useLocalStorage" /\ lastOp'.arg = "ok")
          => (~lastOp'.ret.threw /\ lifts' = lifts /\ workouts' = workouts)]_vars

\* C6: whatever the store holds or does, the value a read returns for a key is
\* a list and the component that reads it mounts.
C6_ReadReturnsList ==
    lastOp.op = "useLocalStorage" =>
        /\ lastOp.ret.lifts.kind = "array"
        /\ lastOp.ret.workouts.kind = "array"
        /\ ~lastOp.ret.threw

=============================================================================
